---- MODULE Spec2Model ----
(***************************************************************************)
(* VoxPrivate: the VoiceAssistant orchestrator (voiceprivate/__init__.py), *)
(* the AudioCapture thread and utterance queue (src/audio/capture.py) and  *)
(* the TTS lock (src/tts/engine.py).                                       *)
(*                                                                         *)
(* A step of a thread runs from one test of a shared flag or one blocking  *)
(* call (queue.get, transcribe, the TTS lock, runAndWait, join,            *)
(* stream.read) to the next, so a thread is observed by the others at      *)
(* every point where it can wait or where it has just read a flag.         *)
(*                                                                         *)
(* The GUI message queue (src/gui/app.py, _msg_queue) is written only: the *)
(* orchestrator never reads it. It is observed through what each control   *)
(* call has put (callers[c].emitted), what each cycle has put              *)
(* (loops[t].answered, maxPut) and whether a put followed a shutdown       *)
(* (late).                                                                 *)
(***************************************************************************)
EXTENDS Integers, Sequences, FiniteSets, TLC

\* ---------------------------------------------------------------- bounds
\* control calls made from outside (mic button, hotkey, API user)
MaxCalls == 3
\* utterances the segmenter completes
MaxUtterances == 2
\* frames the segmenter reads
MaxFrames == 7
\* messages each producer thread puts on the GUI queue
MaxPuts == 3
\* words of a text classify_intent is tried on
MaxWords == 4
\* words of a file name
MaxNameWords == 2
\* keys Config.get is called with
MaxKeys == 2
\* how many utterances the segmenter puts on the utterance queue
MaxQueued == 4
\* how many calls of TTSEngine.speak are made
MaxSpeaks == 4

\* ---------------------------------------------------------------- state
VARIABLES
    gui,          \* VoiceAssistant.gui is not None
    listening,    \* VoiceAssistant._listening
    shouldExit,   \* VoiceAssistant._should_exit
    loops,        \* every thread ever started on VoiceAssistant._loop
    running,      \* AudioCapture._running
    caps,         \* every thread ever started on AudioCapture._capture_loop
    audioQueue,   \* AudioCapture._audio_queue (utterance ids, FIFO)
    ttsLock,      \* TTSEngine._lock: 0 free, else the loop thread holding it
    callers,      \* the threads that call the control operations
    recent,       \* history: the last two control calls begun, oldest first
    ncalls,       \* history: control calls made from outside
    enqueued,     \* history: utterances put on the queue so far (the last id)
    maxPut,       \* history: the latest utterance a Transcript/Response was put for
    stopped,      \* history: a stop() has returned
    late,         \* history: a message was put after a stop() had returned
    fatalShown,   \* history: a fatal status was put on the GUI queue
    recording,    \* whether the two histories below are kept in this run
    resumedAt,    \* history: the last utterance put before listening last resumed
    echo,         \* history: the utterances completed while the Speaker was talking
    lastStatus,   \* history: the status last put on the GUI queue
    lastMic,      \* history: the Listening(bool) last put on the GUI queue
    listenPc,     \* where the headless main thread is in listen()
    config,       \* the audio section of config.yaml, as AudioCapture.__init__ reads it
    frames,       \* history: is_speech of every frame _capture_loop has read
    buffer,       \* _capture_loop: buffer (the numbers of the frames in it)
    silent_chunks, \* _capture_loop: silent_chunks
    speaking,     \* _capture_loop: speaking
    segQueue,     \* the utterances _capture_loop has put, each the frames joined
    msgQueue,     \* VoxPrivateApp._msg_queue, message by message
    sent,         \* history: how many messages each producer thread has put
    shown,        \* history: the messages _dispatch_message was given, in order
    pollPc,       \* where the Tk main thread is in _poll_messages
    exe,          \* one call of CommandExecutor.execute
    clsText,      \* the text classify_intent is called with: its words, in order
    result,       \* what the last call of classify_intent returned
    ncls,         \* history: how many times classify_intent was called on the text
    cfgData,      \* Config._data
    cfgKeys,      \* the keys Config.get is called with
    cfgDefault,   \* the default Config.get is called with
    cfgGot,       \* what Config.get returned (NotCalled before the call)
    cyc,          \* one loop thread of _loop, statement by statement
    engine,       \* TTSEngine._engine is not None
    lockHeld,     \* TTSEngine._lock: the thread holding it, or none
    speakers,     \* each thread that calls TTSEngine.speak: where it is in the call
    spoken,       \* (history) the speak calls that have returned, in order
    queued,       \* AudioCapture._audio_queue, followed alone: the utterances on it
    nput,         \* how many utterances were put
    returned,     \* (history) what get_audio has returned, and to which thread, in order
    flushed,      \* (history) the utterances clear_queue has taken off
    clearPc       \* the thread in clear_queue: where it is

\* the orchestrator, its threads and its histories
orchVars == <<gui, listening, shouldExit, loops, running, caps, audioQueue, ttsLock,
              callers, recent, ncalls, enqueued, maxPut, stopped, late, fatalShown,
              recording, resumedAt, echo, listenPc, lastStatus, lastMic>>

\* the segmenter of _capture_loop, followed frame by frame
segVars == <<config, frames, buffer, silent_chunks, speaking, segQueue>>

\* the GUI message queue and its pump
uiVars == <<msgQueue, sent, shown, pollPc>>

\* CommandExecutor.execute
exeVars == <<exe>>

\* classify_intent, called on a text
clsVars == <<clsText, result, ncls>>

\* Config.get, called on a config
cfgVars == <<cfgData, cfgKeys, cfgDefault, cfgGot>>

\* one loop thread, statement by statement
cycVars == <<cyc>>

\* the speech engine
ttsVars == <<engine, lockHeld, speakers, spoken>>

\* the utterance queue and the threads that take from it
queVars == <<queued, nput, returned, flushed, clearPc>>

vars == <<orchVars, segVars, uiVars, exeVars, clsVars, cfgVars, cycVars, ttsVars,
           queVars>>

\* what a step of the orchestrator leaves alone, a step of the segmenter, a
\* step of the GUI queue and a step of the executor
notOrch == <<segVars, uiVars, exeVars, clsVars, cfgVars, cycVars, ttsVars, queVars>>
notSeg == <<orchVars, uiVars, exeVars, clsVars, cfgVars, cycVars, ttsVars, queVars>>
notUi == <<orchVars, segVars, exeVars, clsVars, cfgVars, cycVars, ttsVars, queVars>>
notExe == <<orchVars, segVars, uiVars, clsVars, cfgVars, cycVars, ttsVars, queVars>>
notCls == <<orchVars, segVars, uiVars, exeVars, cfgVars, cycVars, ttsVars, queVars>>
notCfg == <<orchVars, segVars, uiVars, exeVars, clsVars, cycVars, ttsVars, queVars>>
notCyc == <<orchVars, segVars, uiVars, exeVars, clsVars, cfgVars, ttsVars, queVars>>
notTts == <<orchVars, segVars, uiVars, exeVars, clsVars, cfgVars, cycVars, queVars>>
notQue == <<orchVars, segVars, uiVars, exeVars, clsVars, cfgVars, cycVars, ttsVars>>

\* main.py: the Tk main thread (mic button) or the headless main thread, and
\* the keyboard hotkey thread
Callers == {"main", "hotkey"}

\* outcomes of SpeechRecognizer.transcribe: it raises, returns "", returns a
\* command, or returns a phrase of the stop intent
SttResults == {"error", "empty", "cmd", "bye"}

\* the text _loop continues with (an exception is turned into "")
TextOf(res) == IF res \in {"error", "empty"} THEN "" ELSE res

\* classify_intent, as far as _loop looks at it: is the intent "stop"
classify_intent(text) == IF text = "bye" THEN "stop" ELSE "other"

\* ---------------------------------------------------------------- helpers
\* a message of the GUI queue: its kind, its argument, and the utterance the
\* text is about (0 when it is about none)
Ev(k, a, u) == [kind |-> k, arg |-> a, utt |-> u]

\* a status that tells the user the assistant cannot go on
IsFatal(e) == e.kind = "status" /\ e.arg \in {"fatal", "error"}

\* gui.set_xxx / gui.log: what is put on the message queue, nothing when gui
\* is None
Emit(es) == IF gui THEN es ELSE <<>>

\* the argument of the last message of kind k among es, or old when es has
\* none
LastOf(k, es, old) ==
    LET OfKind(e) == e.kind = k
        some == SelectSeq(es, OfKind)
    IN  IF some = <<>> THEN old ELSE some[Len(some)].arg

\* the messages es are put: a put after a shutdown is late; the histories
\* lastStatus and lastMic follow the status and the mic messages
Put(es) ==
    /\ late' = (late \/ (stopped /\ Emit(es) # <<>>))
    /\ fatalShown' = (fatalShown \/ \E i \in DOMAIN Emit(es) : IsFatal(Emit(es)[i]))
    /\ lastStatus' = IF recording THEN LastOf("status", Emit(es), lastStatus) ELSE lastStatus
    /\ lastMic' = IF recording THEN LastOf("mic", Emit(es), lastMic) ELSE lastMic

LiveLoops == {t \in DOMAIN loops : loops[t].pc # "done"}
LiveCaps == {k \in DOMAIN caps : caps[k] \notin {"done", "failed"}}

\* what toggle_listening can change: the flag and the threads alive
Snap == [listening |-> listening,
         loops |-> Cardinality(LiveLoops),
         caps |-> Cardinality(LiveCaps)]

\* a loop thread as threading.Thread(target=self._loop).start() creates it
\* utt: the utterance its cycle is about (0 between cycles); res, said,
\* answered: what transcribe gave in its last cycle, and the Speaker calls
\* and Response messages of that cycle, kept until its next while test
NewLoop == [pc |-> "top", utt |-> 0, res |-> "none", said |-> 0, answered |-> 0]

\* a loop thread that has ended
EndedLoop == [pc |-> "done", utt |-> 0, res |-> "none", said |-> 0, answered |-> 0]

\* a caller that is in no call
Idle == [pc |-> "idle", emitted |-> <<>>]

InitOrch ==
    /\ gui \in BOOLEAN
    /\ listening = FALSE
    /\ shouldExit = FALSE
    /\ loops = <<>>
    /\ running = FALSE
    /\ caps = <<>>
    /\ audioQueue = <<>>
    /\ ttsLock = 0
    /\ callers = [c \in Callers |-> Idle]
    /\ recent = <<>>
    /\ ncalls = 0
    /\ enqueued = 0
    /\ maxPut = 0
    /\ stopped = FALSE
    /\ late = FALSE
    /\ fatalShown = FALSE
    /\ resumedAt = 0
    /\ echo = {}
    /\ lastStatus = "idle"
    /\ lastMic = "none"

\* ------------------------------------------------- history of control calls
\* no snapshot kept
NoSnap == [listening |-> FALSE, loops |-> 0, caps |-> 0]

\* a control call begins: who makes it, which operation, and for a
\* toggle_listening the flag and the threads it finds
BeginCall(who, op) ==
    LET r == [op |-> op, by |-> who,
              pre |-> IF op = "toggle_listening" THEN Snap ELSE NoSnap]
    IN  IF recent = <<>> THEN <<r>> ELSE <<recent[Len(recent)], r>>

\* ------------------------------------------------- the control operations
\* start_listening, lines 76-78
StartEvents == <<Ev("mic", "on", 0), Ev("status", "listening", 0), Ev("log", "started", 0)>>

\* stop_listening, lines 84-85
PauseEvents == <<Ev("mic", "off", 0), Ev("status", "idle", 0)>>

\* start_listening / toggle_listening are entered: lines 69-70 and 89-92.
\* Listening already: start_listening returns, toggle_listening goes on to
\* stop_listening. Not listening: both go on to line 71.
CallStart(c, op) ==
    /\ callers[c].pc = "idle"
    /\ ncalls < MaxCalls
    /\ op \in {"start_listening", "toggle_listening"}
    /\ ncalls' = ncalls + 1
    /\ recent' = BeginCall(c, op)
    /\ callers' = [callers EXCEPT ![c] =
          [pc |-> IF ~listening THEN "sl_set"
                  ELSE IF op = "toggle_listening" THEN "pl" ELSE "idle",
           emitted |-> <<>>]]
    /\ UNCHANGED <<notOrch, gui, listenPc, recording, resumedAt, echo, listening,
                   shouldExit, loops, running, caps, audioQueue, ttsLock, enqueued,
                   maxPut, stopped, late, fatalShown, lastStatus, lastMic>>

\* AudioCapture.start, lines 86-90: nothing when running, else set the flag
\* and start a capture thread
CaptureStart(cp) == IF running THEN cp ELSE Append(cp, "check")

\* start_listening, lines 71-74: set the flag, start capture, start a thread
\* on self._loop
SlSet(c) ==
    /\ callers[c].pc = "sl_set"
    /\ listening' = TRUE
    /\ caps' = CaptureStart(caps)
    /\ running' = TRUE
    /\ loops' = Append(loops, NewLoop)
    /\ callers' = [callers EXCEPT ![c].pc = "sl_events"]
    /\ resumedAt' = IF recording THEN enqueued ELSE resumedAt
    /\ UNCHANGED <<notOrch, gui, listenPc, recording, echo, shouldExit, audioQueue,
                   ttsLock, recent, ncalls, enqueued, maxPut, stopped, late,
                   fatalShown, lastStatus, lastMic>>

\* start_listening, lines 75-78: the three GUI notifications, then return
SlEvents(c) ==
    /\ callers[c].pc = "sl_events"
    /\ Put(StartEvents)
    /\ callers' = [callers EXCEPT ![c] =
          [pc |-> "idle", emitted |-> @.emitted \o Emit(StartEvents)]]
    /\ UNCHANGED <<notOrch, gui, listenPc, recording, resumedAt, echo, listening,
                   shouldExit, loops, running, caps, audioQueue, ttsLock, recent,
                   ncalls, enqueued, maxPut, stopped>>

\* stop_listening, lines 82-85, called directly
CallStopListening(c) ==
    /\ callers[c].pc = "idle"
    /\ ncalls < MaxCalls
    /\ ncalls' = ncalls + 1
    /\ recent' = BeginCall(c, "stop_listening")
    /\ listening' = FALSE
    /\ Put(PauseEvents)
    /\ UNCHANGED <<notOrch, gui, listenPc, recording, resumedAt, echo, shouldExit,
                   loops, running, caps, audioQueue, ttsLock, enqueued, maxPut,
                   stopped>>
    /\ callers' = [callers EXCEPT ![c] =
          [pc |-> "idle", emitted |-> Emit(PauseEvents)]]

\* stop_listening, lines 82-85, called by toggle_listening (line 90)
Pl(c) ==
    /\ callers[c].pc = "pl"
    /\ listening' = FALSE
    /\ Put(PauseEvents)
    /\ UNCHANGED <<notOrch, gui, listenPc, recording, resumedAt, echo, shouldExit,
                   loops, running, caps, audioQueue, ttsLock, recent, ncalls, enqueued,
                   maxPut, stopped>>
    /\ callers' = [callers EXCEPT ![c] =
          [pc |-> "idle", emitted |-> @.emitted \o Emit(PauseEvents)]]

\* AudioCapture.stop, lines 95-96: join(timeout=2) on the thread started last
\* returns when that thread has ended, or by its timeout while the thread is
\* still blocked in stream.read
JoinReturns ==
    IF caps = <<>> THEN TRUE ELSE caps[Len(caps)] \in {"done", "failed", "reading"}

\* stop, lines 96-97 and AudioCapture.stop, line 94: the three flags
CallStop(c) ==
    /\ callers[c].pc = "idle"
    /\ ncalls < MaxCalls
    /\ ncalls' = ncalls + 1
    /\ recent' = BeginCall(c, "stop")
    /\ shouldExit' = TRUE
    /\ listening' = FALSE
    /\ running' = FALSE
    /\ callers' = [callers EXCEPT ![c] = [pc |-> "st_join", emitted |-> <<>>]]
    /\ UNCHANGED <<notOrch, gui, listenPc, recording, resumedAt, echo, loops, caps,
                   audioQueue, ttsLock, enqueued, maxPut, stopped, late, fatalShown, lastStatus, lastMic>>

\* AudioCapture.stop, lines 95-96, then stop returns
StJoin(c) ==
    /\ callers[c].pc = "st_join"
    /\ JoinReturns
    /\ callers' = [callers EXCEPT ![c].pc = "idle"]
    /\ stopped' = TRUE
    /\ UNCHANGED <<notOrch, gui, listenPc, recording, resumedAt, echo, listening,
                   shouldExit, loops, running, caps, audioQueue, ttsLock, recent,
                   ncalls, enqueued, maxPut, late, fatalShown, lastStatus, lastMic>>

\* ------------------------------------------------- the loop thread (_loop)
LoopAt(t, pc) == t \in DOMAIN loops /\ loops[t].pc = pc

\* LoopTop without the exit test of line 103 (while True)
LoopTopNoExit(t) ==
    /\ LoopAt(t, "top")
    /\ loops' = [loops EXCEPT ![t] = [NewLoop EXCEPT !.pc = IF ~listening THEN "top" ELSE "get"]]
    /\ UNCHANGED <<notOrch, gui, listenPc, recording, resumedAt, echo, listening,
                   shouldExit, running, caps, audioQueue, ttsLock, callers, recent,
                   ncalls, enqueued, maxPut, stopped, late, fatalShown, lastStatus, lastMic>>

\* _loop, lines 103-106: while not self._should_exit; if not self._listening:
\* sleep and continue
LoopTop(t) ==
    /\ LoopAt(t, "top")
    /\ loops' = [loops EXCEPT ![t] =
          IF shouldExit THEN EndedLoop
          ELSE [NewLoop EXCEPT !.pc = IF ~listening THEN "top" ELSE "get"]]
    /\ UNCHANGED <<notOrch, gui, listenPc, recording, resumedAt, echo, listening,
                   shouldExit, running, caps, audioQueue, ttsLock, callers, recent,
                   ncalls, enqueued, maxPut, stopped, late, fatalShown, lastStatus, lastMic>>

\* _loop, lines 108-114 and get_audio: queue.get(timeout=0.2) gives None when
\* the queue stayed empty; else the status is set to thinking and transcribe
\* is called
LoopGet(t) ==
    /\ LoopAt(t, "get")
    /\ IF audioQueue = <<>>
          THEN /\ loops' = [loops EXCEPT ![t].pc = "top"]
               /\ UNCHANGED <<audioQueue, late, fatalShown, lastStatus, lastMic>>
          ELSE /\ loops' = [loops EXCEPT ![t].pc = "stt", ![t].utt = Head(audioQueue)]
               /\ audioQueue' = Tail(audioQueue)
               /\ Put(<<Ev("status", "thinking", 0)>>)
    /\ UNCHANGED <<notOrch, gui, listenPc, recording, resumedAt, echo, listening,
                   shouldExit, running, caps, ttsLock, callers, recent, ncalls,
                   enqueued, maxPut, stopped>>

\* _loop, lines 128-135, CommandExecutor.execute (the action callback puts
\* the response) and _speak, lines 152-155: what a cycle puts on the message
\* queue between the return of transcribe and the call of TTSEngine.speak
ResponseEvents(text, u) ==
    <<Ev("trans", text, u), Ev("log", "you", u), Ev("resp", classify_intent(text), u),
      Ev("status", "speaking", 0), Ev("log", "assistant", u)>>

IsTransOrResp(e) == e.kind \in {"trans", "resp"}

IsResp(e) == e.kind = "resp"

Max(a, b) == IF a < b THEN b ELSE a

\* the answer of a cycle is put: lines 128-135 and 152-155
Answer(t, res) ==
    LET es == Emit(ResponseEvents(TextOf(res), loops[t].utt))
    IN  /\ loops' = [loops EXCEPT ![t].pc = "spk_begin", ![t].res = res,
                                  ![t].answered = Len(SelectSeq(es, IsResp))]
        /\ Put(ResponseEvents(TextOf(res), loops[t].utt))
        /\ maxPut' = IF SelectSeq(es, IsTransOrResp) # <<>>
                        THEN Max(maxPut, loops[t].utt) ELSE maxPut

\* the cycle ends without an answer: lines 123-126
NoAnswer(t, res) ==
    /\ loops' = [loops EXCEPT ![t].pc = "top", ![t].utt = 0, ![t].res = res]
    /\ Put(<<Ev("status", "listening", 0)>>)
    /\ UNCHANGED maxPut

\* LoopStt without the try/except of lines 117-121: an exception of
\* transcribe ends the thread
LoopSttUncaught(t) ==
    /\ LoopAt(t, "stt")
    /\ \E res \in SttResults :
          IF res = "error"
             THEN /\ loops' = [loops EXCEPT ![t] = [EndedLoop EXCEPT !.res = res]]
                  /\ UNCHANGED <<maxPut, late, fatalShown, lastStatus, lastMic>>
             ELSE IF TextOf(res) = "" THEN NoAnswer(t, res) ELSE Answer(t, res)
    /\ UNCHANGED <<notOrch, gui, listenPc, recording, resumedAt, echo, listening,
                   shouldExit, running, caps, audioQueue, ttsLock, callers, recent,
                   ncalls, enqueued, stopped>>

\* LoopStt without the test of line 123: an empty text is answered like any
\* other
LoopSttAnswersEmpty(t) ==
    /\ LoopAt(t, "stt")
    /\ \E res \in SttResults : Answer(t, res)
    /\ UNCHANGED <<notOrch, gui, listenPc, recording, resumedAt, echo, listening,
                   shouldExit, running, caps, audioQueue, ttsLock, callers, recent,
                   ncalls, enqueued, stopped>>

\* _loop, lines 117-126: transcribe returns or raises, an exception gives
\* text = ""; an empty text resets the status and ends the cycle
\* _loop, lines 128-146: any other text is classified, executed and handed
\* to _speak
LoopStt(t) ==
    /\ LoopAt(t, "stt")
    /\ \E res \in SttResults :
          IF TextOf(res) = "" THEN NoAnswer(t, res) ELSE Answer(t, res)
    /\ UNCHANGED <<notOrch, gui, listenPc, recording, resumedAt, echo, listening,
                   shouldExit, running, caps, audioQueue, ttsLock, callers, recent,
                   ncalls, enqueued, stopped>>

\* _speak, line 156 and TTSEngine.speak, lines 41-43: take the lock, say
LoopSpkBegin(t) ==
    /\ LoopAt(t, "spk_begin")
    /\ ttsLock = 0
    /\ ttsLock' = t
    /\ loops' = [loops EXCEPT ![t].pc = "spk_end", ![t].said = @ + 1]
    /\ UNCHANGED <<notOrch, gui, listenPc, recording, resumedAt, echo, listening,
                   shouldExit, running, caps, audioQueue, callers, recent, ncalls,
                   enqueued, maxPut, stopped, late, fatalShown, lastStatus, lastMic>>

\* LoopSpkEnd without lines 138-142: the stop intent is answered like any
\* other and the loop goes on
LoopSpkEndNoStop(t) ==
    /\ LoopAt(t, "spk_end")
    /\ ttsLock' = 0
    /\ loops' = [loops EXCEPT ![t].pc = "top", ![t].utt = 0]
    /\ Put(<<Ev("status", "listening", 0)>>)
    /\ UNCHANGED <<notOrch, gui, listenPc, recording, resumedAt, echo, caps,
                   audioQueue, callers, ncalls, enqueued, maxPut, stopped, recent,
                   shouldExit, listening, running>>

\* TTSEngine.speak, lines 44-46: runAndWait returns (or raises and is caught)
\* and the lock is released
\* _loop, lines 138-142: the stop intent calls stop() (lines 96-97, 94)
\* _loop, lines 148-149: any other intent resets the status, the cycle ends
LoopSpkEnd(t) ==
    /\ LoopAt(t, "spk_end")
    /\ ttsLock' = 0
    /\ IF classify_intent(TextOf(loops[t].res)) = "stop"
          THEN /\ loops' = [loops EXCEPT ![t].pc = "st_join", ![t].utt = 0]
               /\ recent' = BeginCall("loop", "stop")
               /\ shouldExit' = TRUE
               /\ listening' = FALSE
               /\ running' = FALSE
               /\ UNCHANGED <<late, fatalShown, lastStatus, lastMic>>
          ELSE /\ loops' = [loops EXCEPT ![t].pc = "top", ![t].utt = 0]
               /\ Put(<<Ev("status", "listening", 0)>>)
               /\ UNCHANGED <<recent, shouldExit, listening, running>>
    /\ UNCHANGED <<notOrch, gui, listenPc, recording, resumedAt, echo, caps,
                   audioQueue, callers, ncalls, enqueued, maxPut, stopped>>

\* AudioCapture.stop, lines 95-96, stop returns; _loop, line 142: break
LoopStJoin(t) ==
    /\ LoopAt(t, "st_join")
    /\ JoinReturns
    /\ loops' = [loops EXCEPT ![t] = EndedLoop]
    /\ stopped' = TRUE
    /\ UNCHANGED <<notOrch, gui, listenPc, recording, resumedAt, echo, listening,
                   shouldExit, running, caps, audioQueue, ttsLock, callers, recent,
                   ncalls, enqueued, maxPut, late, fatalShown, lastStatus, lastMic>>

\* ------------------------------------------------- the capture thread
\* _capture_loop, lines 47-62: the stream is opened and the while test is
\* made for the first time; lines 80-82 when the flag is false already
CapCheck(k) ==
    /\ k \in DOMAIN caps
    /\ caps[k] = "check"
    /\ caps' = [caps EXCEPT ![k] = IF running THEN "reading" ELSE "done"]
    /\ UNCHANGED <<notOrch, gui, listenPc, recording, resumedAt, echo, listening,
                   shouldExit, loops, running, audioQueue, ttsLock, callers, recent,
                   ncalls, enqueued, maxPut, stopped, late, fatalShown, lastStatus, lastMic>>

\* _capture_loop, lines 62-79: stream.read returns a frame, _is_speech reports
\* its amplitude to the GUI, the frame either completes an utterance, which
\* is put on the queue, or does not, and the while test is made again
CapFrame(k) ==
    /\ k \in DOMAIN caps
    /\ caps[k] = "reading"
    /\ Put(<<Ev("amp", "", 0)>>)
    /\ caps' = [caps EXCEPT ![k] = IF running THEN "reading" ELSE "done"]
    /\ \E complete \in BOOLEAN :
          IF complete
             THEN /\ enqueued < MaxUtterances
                  /\ enqueued' = enqueued + 1
                  /\ audioQueue' = Append(audioQueue, enqueued + 1)
                  /\ echo' = IF recording /\ ttsLock # 0 THEN echo \cup {enqueued + 1} ELSE echo
             ELSE UNCHANGED <<enqueued, audioQueue, echo>>
    /\ UNCHANGED <<notOrch, gui, listenPc, recording, resumedAt, listening, shouldExit,
                   loops, running, ttsLock, callers, recent, ncalls, maxPut, stopped>>

\* _capture_loop, line 63: stream.read raises (the device is gone); the
\* exception leaves the loop through the finally of lines 80-82 and ends the
\* thread, and nothing clears AudioCapture._running
CapReadFails(k) ==
    /\ k \in DOMAIN caps
    /\ caps[k] = "reading"
    /\ caps' = [caps EXCEPT ![k] = "failed"]
    /\ UNCHANGED <<notOrch, gui, listenPc, recording, resumedAt, echo, listening,
                   shouldExit, loops, running, audioQueue, ttsLock, callers, recent, ncalls, enqueued,
                   maxPut, stopped, late, fatalShown, lastStatus, lastMic>>

\* ------------------------------------------------- listen(), the headless run
\* listen, lines 58-59: the greeting is spoken (TTSEngine.speak takes and
\* releases the lock)
ListenGreet ==
    /\ listenPc = "init"
    /\ ttsLock = 0
    /\ listenPc' = "greeted"
    /\ UNCHANGED <<notOrch, gui, recording, resumedAt, echo, listening, shouldExit, loops, running,
                   caps, audioQueue, ttsLock, callers, recent, ncalls, enqueued, maxPut,
                   stopped, late, fatalShown, lastStatus, lastMic>>

\* listen, line 60: start_listening is entered (lines 69-70)
ListenStart ==
    /\ listenPc = "greeted"
    /\ listenPc' = "started"
    /\ recent' = BeginCall("main", "start_listening")
    /\ callers' = [callers EXCEPT !["main"] =
          [pc |-> IF ~listening THEN "sl_set" ELSE "idle", emitted |-> <<>>]]
    /\ UNCHANGED <<notOrch, gui, recording, resumedAt, echo, listening, shouldExit, loops, running,
                   caps, audioQueue, ttsLock, ncalls, enqueued, maxPut, stopped, late,
                   fatalShown, lastStatus, lastMic>>

\* listen, lines 62-63: start_listening has returned; while not
\* self._should_exit: sleep
ListenWait ==
    /\ listenPc \in {"started", "waiting"}
    /\ callers["main"].pc = "idle"
    /\ listenPc' = IF shouldExit THEN "returned" ELSE "waiting"
    /\ UNCHANGED <<notOrch, gui, recording, resumedAt, echo, listening, shouldExit, loops, running,
                   caps, audioQueue, ttsLock, callers, recent, ncalls, enqueued, maxPut,
                   stopped, late, fatalShown, lastStatus, lastMic>>

\* listen, lines 64-65: KeyboardInterrupt during the sleep, stop() is called
\* (lines 96-97 and AudioCapture.stop, line 94)
ListenInterrupt ==
    /\ listenPc = "waiting"
    /\ listenPc' = "interrupted"
    /\ recent' = BeginCall("main", "stop")
    /\ shouldExit' = TRUE
    /\ listening' = FALSE
    /\ running' = FALSE
    /\ callers' = [callers EXCEPT !["main"] = [pc |-> "st_join", emitted |-> <<>>]]
    /\ UNCHANGED <<notOrch, gui, recording, resumedAt, echo, loops, caps, audioQueue, ttsLock,
                   ncalls, enqueued, maxPut, stopped, late, fatalShown, lastStatus, lastMic>>

\* listen, line 65: stop() has returned and so does listen
ListenReturn ==
    /\ listenPc = "interrupted"
    /\ callers["main"].pc = "idle"
    /\ listenPc' = "returned"
    /\ UNCHANGED <<notOrch, gui, recording, resumedAt, echo, listening, shouldExit, loops, running,
                   caps, audioQueue, ttsLock, callers, recent, ncalls, enqueued, maxPut,
                   stopped, late, fatalShown, lastStatus, lastMic>>

\* ------------------------------------------------- the segmenter
\* _capture_loop frame by frame: what CapFrame leaves open (whether a frame
\* completes an utterance) is computed here from the frames read.

\* the audio section of config.yaml: silence_duration in half seconds,
\* sample_rate and chunk_size scaled down (chunk_size a power of two, as 1024
\* is, so that sample_rate / chunk_size is exact in floating point)
Configs == [silence_duration2 : {1, 2, 3}, sample_rate : {2, 3}, chunk_size : {1, 2}]

\* the defaults of AudioCapture.__init__, lines 23-26: 1.5 s of silence, and
\* the rate and the chunk size scaled
DefaultConfig == [silence_duration2 |-> 3, sample_rate |-> 2, chunk_size |-> 1]

\* _capture_loop, lines 58-59: int(silence_duration * sample_rate / chunk_size);
\* int() of a float that is not negative is its floor
silence_chunks_needed ==
    (config.silence_duration2 * config.sample_rate) \div (2 * config.chunk_size)

\* _capture_loop, lines 55-57: the locals before the first frame
InitSeg(c) ==
    /\ config = c
    /\ frames = <<>>
    /\ buffer = <<>>
    /\ silent_chunks = 0
    /\ speaking = FALSE
    /\ segQueue = <<>>

\* SegFrame without the reset of line 77: the buffer is kept after the put
SegFrameKeepsBuffer(is_speech) ==
    /\ Len(frames) < MaxFrames
    /\ frames' = Append(frames, is_speech)
    /\ LET n == Len(frames) + 1
       IN  IF is_speech
              THEN /\ buffer' = Append(buffer, n)
                   /\ silent_chunks' = 0
                   /\ speaking' = TRUE
                   /\ UNCHANGED segQueue
              ELSE IF speaking
              THEN IF silent_chunks + 1 >= silence_chunks_needed
                      THEN /\ segQueue' = Append(segQueue, Append(buffer, n))
                           /\ buffer' = Append(buffer, n)
                           /\ silent_chunks' = 0
                           /\ speaking' = FALSE
                      ELSE /\ buffer' = Append(buffer, n)
                           /\ silent_chunks' = silent_chunks + 1
                           /\ UNCHANGED <<speaking, segQueue>>
              ELSE UNCHANGED <<buffer, silent_chunks, speaking, segQueue>>
    /\ UNCHANGED <<config, notSeg>>

\* SegFrame without the test of line 70: a silent frame is buffered whether
\* speaking or not
SegFrameBuffersSilence(is_speech) ==
    /\ Len(frames) < MaxFrames
    /\ frames' = Append(frames, is_speech)
    /\ LET n == Len(frames) + 1
       IN  IF is_speech
              THEN /\ buffer' = Append(buffer, n)
                   /\ silent_chunks' = 0
                   /\ speaking' = TRUE
                   /\ UNCHANGED segQueue
              ELSE IF speaking /\ silent_chunks + 1 >= silence_chunks_needed
                      THEN /\ segQueue' = Append(segQueue, Append(buffer, n))
                           /\ buffer' = <<>>
                           /\ silent_chunks' = 0
                           /\ speaking' = FALSE
                      ELSE /\ buffer' = Append(buffer, n)
                           /\ silent_chunks' = silent_chunks + 1
                           /\ UNCHANGED <<speaking, segQueue>>
    /\ UNCHANGED <<config, notSeg>>

\* SegFrame without the reset of line 68: speech does not end the silent run
SegFrameKeepsCount(is_speech) ==
    /\ Len(frames) < MaxFrames
    /\ frames' = Append(frames, is_speech)
    /\ LET n == Len(frames) + 1
       IN  IF is_speech
              THEN /\ buffer' = Append(buffer, n)
                   /\ speaking' = TRUE
                   /\ UNCHANGED <<silent_chunks, segQueue>>
              ELSE IF speaking
              THEN IF silent_chunks + 1 >= silence_chunks_needed
                      THEN /\ segQueue' = Append(segQueue, Append(buffer, n))
                           /\ buffer' = <<>>
                           /\ silent_chunks' = 0
                           /\ speaking' = FALSE
                      ELSE /\ buffer' = Append(buffer, n)
                           /\ silent_chunks' = silent_chunks + 1
                           /\ UNCHANGED <<speaking, segQueue>>
              ELSE UNCHANGED <<buffer, silent_chunks, speaking, segQueue>>
    /\ UNCHANGED <<config, notSeg>>

\* SegFrame with > for >= in line 73: the utterance is put one frame later
SegFramePutsLate(is_speech) ==
    /\ Len(frames) < MaxFrames
    /\ frames' = Append(frames, is_speech)
    /\ LET n == Len(frames) + 1
       IN  IF is_speech
              THEN /\ buffer' = Append(buffer, n)
                   /\ silent_chunks' = 0
                   /\ speaking' = TRUE
                   /\ UNCHANGED segQueue
              ELSE IF speaking
              THEN IF silent_chunks + 1 > silence_chunks_needed
                      THEN /\ segQueue' = Append(segQueue, Append(buffer, n))
                           /\ buffer' = <<>>
                           /\ silent_chunks' = 0
                           /\ speaking' = FALSE
                      ELSE /\ buffer' = Append(buffer, n)
                           /\ silent_chunks' = silent_chunks + 1
                           /\ UNCHANGED <<speaking, segQueue>>
              ELSE UNCHANGED <<buffer, silent_chunks, speaking, segQueue>>
    /\ UNCHANGED <<config, notSeg>>

\* _capture_loop, lines 63-79: one frame is read and classified by _is_speech
\* lines 66-69: speech is buffered and ends the silent run
\* lines 70-79: silence while speaking is buffered and counted, and the
\* utterance is put and the locals reset when the count reaches
\* silence_chunks_needed; silence while not speaking is dropped
SegFrame(is_speech) ==
    /\ Len(frames) < MaxFrames
    /\ frames' = Append(frames, is_speech)
    /\ LET n == Len(frames) + 1
       IN  IF is_speech
              THEN /\ buffer' = Append(buffer, n)
                   /\ silent_chunks' = 0
                   /\ speaking' = TRUE
                   /\ UNCHANGED segQueue
              ELSE IF speaking
              THEN IF silent_chunks + 1 >= silence_chunks_needed
                      THEN /\ segQueue' = Append(segQueue, Append(buffer, n))
                           /\ buffer' = <<>>
                           /\ silent_chunks' = 0
                           /\ speaking' = FALSE
                      ELSE /\ buffer' = Append(buffer, n)
                           /\ silent_chunks' = silent_chunks + 1
                           /\ UNCHANGED <<speaking, segQueue>>
              ELSE UNCHANGED <<buffer, silent_chunks, speaking, segQueue>>
    /\ UNCHANGED <<config, notSeg>>

\* ------------------------------------------------- the GUI message queue
\* the threads that put messages while the assistant works: the capture
\* thread (set_amplitude, by _is_speech) and the loop thread (set_status,
\* set_transcription, set_response, log)
Producers == {"capture", "loop"}

\* the n-th message of producer p
Msg(p, n) == [by |-> p, n |-> n]

\* VoxPrivateApp.__init__, line 146: queue.Queue(), empty and unbounded;
\* line 155: the first poll is yet to run
InitUi ==
    /\ msgQueue = <<>>
    /\ sent = [p \in Producers |-> 0]
    /\ shown = <<>>
    /\ pollPc = "idle"

\* UiPut on a queue.Queue(maxsize=1): put waits while the queue is full
UiPutBounded(p) ==
    /\ sent[p] < MaxPuts
    /\ Len(msgQueue) < 1
    /\ msgQueue' = Append(msgQueue, Msg(p, sent[p] + 1))
    /\ sent' = [sent EXCEPT ![p] = @ + 1]
    /\ UNCHANGED <<shown, pollPc, notUi>>

\* set_status .. log, lines 277-302: self._msg_queue.put(msg)
UiPut(p) ==
    /\ sent[p] < MaxPuts
    /\ msgQueue' = Append(msgQueue, Msg(p, sent[p] + 1))
    /\ sent' = [sent EXCEPT ![p] = @ + 1]
    /\ UNCHANGED <<shown, pollPc, notUi>>

\* _poll_messages is called: line 155 the first time, then by after(50),
\* line 313
PollBegin ==
    /\ pollPc = "idle"
    /\ pollPc' = "draining"
    /\ UNCHANGED <<msgQueue, sent, shown, notUi>>

\* _poll_messages, lines 309-310: get_nowait gives a message, which is
\* dispatched
PollGet ==
    /\ pollPc = "draining"
    /\ msgQueue # <<>>
    /\ shown' = Append(shown, Head(msgQueue))
    /\ msgQueue' = Tail(msgQueue)
    /\ UNCHANGED <<sent, pollPc, notUi>>

\* _poll_messages, lines 311-313: get_nowait raises Empty, the next poll is
\* scheduled and the call returns
PollEmpty ==
    /\ pollPc = "draining"
    /\ msgQueue = <<>>
    /\ pollPc' = "idle"
    /\ UNCHANGED <<msgQueue, sent, shown, notUi>>

\* ------------------------------------------------- CommandExecutor.execute
\* execute, lines 41-60: the keys of the handler table
Handlers ==
    {"time", "date", "open_terminal", "screenshot", "create_file", "open_browser",
     "play_music", "volume_up", "volume_down", "mute", "shutdown", "restart",
     "sleep", "calculator", "notepad", "help", "stop", "unknown"}

\* the intent strings execute is called with: the keys and one other name
Intents == Handlers \cup {"weather"}

\* execute, line 61: handlers.get(intent, self._handle_unknown)
handlers_get(intent) == IF intent \in Handlers THEN intent ELSE "unknown"

\* what the handlers return, lines 73-232 (one return of each)
Reply ==
    [h \in Handlers |->
       CASE h = "time" -> "The current time is"
         [] h = "date" -> "Today is"
         [] h = "open_terminal" -> "Opening the terminal."
         [] h = "screenshot" -> "Screenshot saved to"
         [] h = "create_file" -> "Created file"
         [] h = "open_browser" -> "Opening your web browser."
         [] h = "play_music" -> "Opening music player."
         [] h = "volume_up" -> "Increasing volume."
         [] h = "volume_down" -> "Volume decreased."
         [] h = "mute" -> "Muted."
         [] h = "shutdown" -> "Shutdown initiated."
         [] h = "restart" -> "Restart command issued."
         [] h = "sleep" -> "Going to sleep."
         [] h = "calculator" -> "Opening calculator."
         [] h = "notepad" -> "Opening text editor."
         [] h = "help" -> "I can help you with:"
         [] h = "stop" -> "Goodbye! See you next time."
         [] h = "unknown" -> "Sorry, I didn't understand that."]

\* execute, line 65: the response after an exception of the handler
ErrorReply == "Sorry, I encountered an error:"

\* no call of execute is in progress and none was made
InitExe ==
    exe = [pc |-> "idle", intent |-> "", fails |-> FALSE,
           action_callback |-> "none", response |-> ""]

\* execute is called with an intent; fails: the handler will raise;
\* action_callback: not set, set to a callable that returns, or set to one
\* that raises
ExeCall ==
    /\ exe.pc \in {"idle", "returned", "raised"}
    /\ \E intent \in Intents, fails \in BOOLEAN,
          cb \in {"none", "returns", "raises"} :
          exe' = [pc |-> "handler", intent |-> intent, fails |-> fails,
                  action_callback |-> cb, response |-> ""]
    /\ UNCHANGED notExe

\* execute, lines 61-65: the handler is looked up and called in the try
ExeHandler ==
    /\ exe.pc = "handler"
    /\ exe' = [exe EXCEPT !.pc = "notify",
                          !.response = IF exe.fails THEN ErrorReply
                                       ELSE Reply[handlers_get(exe.intent)]]
    /\ UNCHANGED notExe

\* execute, lines 67-69: the callback is called when set, outside the try,
\* so its exception leaves execute; else the response is returned
ExeNotify ==
    /\ exe.pc = "notify"
    /\ exe' = [exe EXCEPT !.pc = IF exe.action_callback = "raises"
                                    THEN "raised" ELSE "returned"]
    /\ UNCHANGED notExe

\* ------------------------------------------------- classify_intent
\* A text is the sequence of its words (the runs of word characters): w is
\* the word in lower case, up tells whether it is written in capitals, and sep
\* is what stands between it and the word before: " " (white space), "."
\* (punctuation) or "'" (an apostrophe); "" before the first word.
Word(w, up, sep) == [w |-> w, up |-> up, sep |-> sep]

\* str.lower, line 102
lower(t) == [i \in DOMAIN t |-> [t[i] EXCEPT !.up = FALSE]]

\* INTENT_PATTERNS, lines 12-85: the keys in the order of the dict
IntentOrder ==
    <<"time", "date", "open_terminal", "screenshot", "create_file", "open_browser",
      "play_music", "volume_up", "volume_down", "mute", "shutdown", "restart",
      "sleep", "calculator", "notepad", "help", "stop">>

\* the phrases a followed by one of bs, and a b followed by one of cs
Two(a, bs) == {<<a, b>> : b \in bs}
Three(a, b, cs) == {<<a, b, c>> : c \in cs}

\* INTENT_PATTERNS, lines 12-85: each regular expression as the phrases it
\* matches, a phrase being words joined by single spaces between two word
\* boundaries. "'s" is an s after an apostrophe; "*" is any word (music
\* followed by a space and a word boundary, line 43).
Patterns(intent) ==
    CASE intent = "time" ->
           {<<"time">>, <<"what", "time">>, <<"current", "time">>,
            <<"what", "'s", "the", "time">>, <<"what", "is", "the", "time">>}
      [] intent = "date" ->
           {<<"date">>, <<"today">>, <<"what", "day">>,
            <<"what", "'s", "today">>, <<"what", "is", "today">>,
            <<"what", "'s", "the", "date">>, <<"what", "is", "the", "date">>}
      [] intent = "open_terminal" ->
           Two("open", {"terminal", "cmd", "console", "shell"})
             \cup {<<"open", "command", "prompt">>}
             \cup Two("launch", {"terminal", "cmd", "console"})
             \cup Two("start", {"terminal", "cmd", "console"})
      [] intent = "screenshot" ->
           Two("take", {"screenshot"}) \cup Three("take", "a", {"screenshot"})
             \cup Two("capture", {"screenshot"}) \cup Three("capture", "a", {"screenshot"})
             \cup Two("grab", {"screenshot"}) \cup Three("grab", "a", {"screenshot"})
             \cup {<<"screenshot">>}
      [] intent = "create_file" ->
           {<<"create", "file">>, <<"create", "a", "file">>,
            <<"make", "file">>, <<"make", "a", "file">>, <<"new", "file">>}
      [] intent = "open_browser" ->
           Two("open", {"browser", "chrome", "firefox", "edge", "internet"})
             \cup Two("launch", {"browser", "chrome", "firefox", "edge"})
             \cup Two("start", {"browser", "chrome", "firefox", "edge"})
      [] intent = "play_music" ->
           {<<"play", "music">>, <<"play", "some", "music">>, <<"open", "music">>,
            <<"launch", "music", "*">>}
             \cup Two("play", {"song", "songs", "audio"})
      [] intent = "volume_up" ->
           {<<"volume", "up">>, <<"increase", "volume">>, <<"louder">>,
            <<"turn", "up">>, <<"turn", "it", "up">>}
      [] intent = "volume_down" ->
           {<<"volume", "down">>, <<"decrease", "volume">>, <<"quieter">>,
            <<"turn", "down">>, <<"turn", "it", "down">>}
      [] intent = "mute" ->
           {<<"mute">>, <<"silence">>, <<"turn", "off", "sound">>,
            <<"turn", "off", "the", "sound">>}
      [] intent = "shutdown" ->
           {<<"shutdown">>, <<"shut", "down">>, <<"power", "off">>}
             \cup Three("turn", "off", {"computer", "pc", "system"})
             \cup {<<"turn", "off", "the", c>> : c \in {"computer", "pc", "system"}}
      [] intent = "restart" ->
           {<<"restart">>, <<"reboot">>}
             \cup Two("restart", {"computer", "pc", "system"})
             \cup Three("restart", "the", {"computer", "pc", "system"})
      [] intent = "sleep" ->
           {<<"sleep">>, <<"hibernate">>}
             \cup {<<"put", c, "to", "sleep">> : c \in {"computer", "pc", "system"}}
             \cup {<<"put", "the", c, "to", "sleep">> : c \in {"computer", "pc", "system"}}
      [] intent = "calculator" ->
           Two("open", {"calculator", "calc"}) \cup Two("launch", {"calculator", "calc"})
      [] intent = "notepad" ->
           Two("open", {"notepad", "notes"}) \cup {<<"open", "text", "editor">>}
             \cup Two("launch", {"notepad", "notes"}) \cup {<<"launch", "text", "editor">>}
      [] intent = "help" ->
           {<<"help">>, <<"what", "can", "you", "do">>, <<"commands">>,
            <<"what", "you", "know">>, <<"what", "do", "you", "know">>}
      [] intent = "stop" ->
           {<<"stop">>, <<"exit">>, <<"quit">>, <<"bye">>, <<"goodbye">>, <<"close">>}

\* re.search(pattern, text_lower), line 107: the phrase stands somewhere in t;
\* the expressions are in lower case and match lower case only
Found(ph, t) ==
    \E k \in 1..(Len(t) - Len(ph) + 1) :
       \A j \in 1..Len(ph) :
          LET it == t[k + j - 1]
          IN  /\ ~it.up
              /\ \/ ph[j] = "*"
                 \/ ph[j] = "'s" /\ it.w = "s"
                 \/ ph[j] = it.w
              /\ j > 1 => it.sep = IF ph[j] = "'s" THEN "'" ELSE " "

\* INTENT_PATTERNS as a table
INTENT_PATTERNS ==
    [intent \in {IntentOrder[i] : i \in DOMAIN IntentOrder} |-> Patterns(intent)]

\* lines 105-107: one of the expressions of the intent matches
Matches(intent, t) == \E ph \in INTENT_PATTERNS[intent] : Found(ph, t)

\* FILE_NAME_PATTERN, lines 88-90: named? is name or named, called? is calle
\* or called (with name is a case of name), in any letter case and with no
\* word boundary before, so any word that ends with one of them
EndsNameOrCall(w) == w \in {"name", "named", "calle", "called", "rename", "filename"}

\* the words of t from i on up to the next white space
RECURSIVE TokenAt(_, _)
TokenAt(t, i) ==
    IF i > Len(t) THEN <<>>
    ELSE IF i < Len(t) /\ t[i + 1].sep # " "
            THEN <<t[i]>> \o TokenAt(t, i + 1)
            ELSE <<t[i]>>

\* a token as a text of its own
AsText(tok) == [i \in DOMAIN tok |-> IF i = 1 THEN [tok[1] EXCEPT !.sep = ""] ELSE tok[i]]

\* where FILE_NAME_PATTERN.search(text) matches: such a word, white space and
\* a token
NameAt(t) == {k \in 1..(Len(t) - 1) : EndsNameOrCall(t[k].w) /\ t[k + 1].sep = " "}

\* "new_file.txt"
DefaultFileName == <<Word("new_file", FALSE, ""), Word("txt", FALSE, ".")>>

\* lines 110-111: group 1 of the leftmost match in the text as it was given,
\* or the default
FileName(t) ==
    IF NameAt(t) = {} THEN DefaultFileName
    ELSE LET k == CHOOSE k \in NameAt(t) : \A m \in NameAt(t) : k <= m
         IN  AsText(TokenAt(t, k + 1))

\* Metadata without the test of line 109: every intent gets a file name
MetadataForAll(intent, t) == {<<"filename", FileName(t)>>}

\* the metadata dict, lines 103 and 109-111: a set of <<key, value>>
Metadata(intent, t) ==
    IF intent = "create_file" THEN {<<"filename", FileName(t)>>} ELSE {}

\* ClassifyFrom that goes on after a match: the last intent that matches wins
RECURSIVE ClassifyFromLast(_, _)
ClassifyFromLast(i, t) ==
    IF i > Len(IntentOrder) THEN [intent |-> "unknown", metadata |-> {}]
    ELSE LET rest == ClassifyFromLast(i + 1, t)
         IN  IF rest.intent = "unknown" /\ Matches(IntentOrder[i], lower(t))
                THEN [intent |-> IntentOrder[i], metadata |-> Metadata(IntentOrder[i], t)]
                ELSE rest

\* lines 105-114: the loop over INTENT_PATTERNS.items() from the i-th intent
\* on; the first intent with a matching expression is returned with its
\* metadata, and ("unknown", {}) when the loop ends
RECURSIVE ClassifyFrom(_, _)
ClassifyFrom(i, t) ==
    IF i > Len(IntentOrder) THEN [intent |-> "unknown", metadata |-> {}]
    ELSE IF Matches(IntentOrder[i], lower(t))
            THEN [intent |-> IntentOrder[i], metadata |-> Metadata(IntentOrder[i], t)]
            ELSE ClassifyFrom(i + 1, t)

\* classify_intent(text), lines 93-114
Classify(t) == ClassifyFrom(1, t)

\* no call of classify_intent was made
NoResult == [intent |-> "", metadata |-> {}]

InitCls ==
    /\ clsText = <<>>
    /\ result = NoResult
    /\ ncls = 0

\* classify_intent(text) is called and returns; the text is classified
\* twice
ClassifyCall ==
    /\ ncls < 2
    /\ ncls' = ncls + 1
    /\ result' = Classify(clsText)
    /\ UNCHANGED <<clsText, notCls>>

\* ------------------------------------------------- Config.get
\* the values of a config: a scalar (v), None, or a dict (items, a function
\* from the keys it holds to values)
NoItems == [k \in {} |-> 0]
Scalar(n) == [kind |-> "scalar", v |-> n, items |-> NoItems]
None == [kind |-> "none", v |-> 0, items |-> NoItems]
Dict(f) == [kind |-> "dict", v |-> 0, items |-> f]

\* the keys of the configs tried
ConfigKeys == {"audio", "sample_rate"}

\* the dicts with keys of ConfigKeys and values of vals
DictsOf(vals) == UNION {{Dict(f) : f \in [S -> vals]} : S \in SUBSET ConfigKeys}

\* the configs tried: dicts of scalars and of dicts of scalars
FlatDicts == DictsOf({Scalar(1)})
Configs2 == DictsOf({Scalar(1)} \cup FlatDicts)

\* the defaults tried: None (the default of the default), a scalar no config
\* holds, and dicts
Defaults == {None, Scalar(0)} \cup FlatDicts

\* the key paths tried
KeyPaths == UNION {[1..n -> ConfigKeys] : n \in 0..MaxKeys}

\* the result before the call
NotCalled == [kind |-> "not called", v |-> 0, items |-> NoItems]

InitCfg ==
    /\ cfgData = Dict(NoItems)
    /\ cfgKeys = <<>>
    /\ cfgDefault = None
    /\ cfgGot = NotCalled

\* dict.get(k, default), line 35
dict_get(val, k, default) == IF k \in DOMAIN val.items THEN val.items[k] ELSE default

\* Config.get, lines 32-36: the loop over the keys left, val being the value
\* reached
RECURSIVE GetLoop(_, _, _)
GetLoop(val, ks, default) ==
    IF ks = <<>> THEN val
    ELSE IF val.kind # "dict" THEN default
    ELSE GetLoop(dict_get(val, Head(ks), default), Tail(ks), default)

\* Config.get(*keys, default=default), lines 29-36
ConfigGet ==
    /\ cfgGot = NotCalled
    /\ cfgGot' = GetLoop(cfgData, cfgKeys, cfgDefault)
    /\ UNCHANGED <<cfgData, cfgKeys, cfgDefault, notCfg>>

\* ------------------------------------------------- the utterance queue
\* the threads that call get_audio: loop threads (_loop, line 108)
Getters == {"loop1", "loop2"}

\* AudioCapture.__init__, line 32: an empty queue.Queue
InitQue ==
    /\ queued = <<>>
    /\ nput = 0
    /\ returned = <<>>
    /\ flushed = {}
    /\ clearPc = "idle"

\* _capture_loop, lines 75-76: the segmenter puts its next utterance
QueuePut ==
    /\ nput < MaxQueued
    /\ nput' = nput + 1
    /\ queued' = Append(queued, nput + 1)
    /\ UNCHANGED <<returned, flushed, clearPc, notQue>>

\* GetAudio with a get that leaves the item on the queue
GetAudioPeeks(g) ==
    /\ IF queued = <<>>
          THEN UNCHANGED returned
          ELSE returned' = Append(returned, [who |-> g, utt |-> Head(queued)])
    /\ UNCHANGED <<queued, nput, flushed, clearPc, notQue>>

\* get_audio, lines 98-106: queue.get takes the first item off under the
\* lock of the queue and returns it; on an empty queue it times out and
\* None is returned
GetAudio(g) ==
    /\ IF queued = <<>>
          THEN UNCHANGED <<queued, returned>>
          ELSE /\ returned' = Append(returned, [who |-> g, utt |-> Head(queued)])
               /\ queued' = Tail(queued)
    /\ UNCHANGED <<nput, flushed, clearPc, notQue>>

\* clear_queue is called
ClearCall ==
    /\ clearPc = "idle"
    /\ clearPc' = "test"
    /\ UNCHANGED <<queued, nput, returned, flushed, notQue>>

\* clear_queue, line 110: the while test; an empty queue ends the call
ClearTest ==
    /\ clearPc = "test"
    /\ clearPc' = IF queued = <<>> THEN "idle" ELSE "get"
    /\ UNCHANGED <<queued, nput, returned, flushed, notQue>>

\* clear_queue, lines 111-114: get_nowait takes the first item off and drops
\* it; when the queue was emptied since the test, queue.Empty ends the call
ClearGet ==
    /\ clearPc = "get"
    /\ IF queued = <<>>
          THEN /\ clearPc' = "idle"
               /\ UNCHANGED <<queued, flushed>>
          ELSE /\ clearPc' = "test"
               /\ flushed' = flushed \cup {Head(queued)}
               /\ queued' = Tail(queued)
    /\ UNCHANGED <<nput, returned, notQue>>

\* ------------------------------------------------- the speech engine
\* the threads that call TTSEngine.speak: the loop thread (_speak, line 156),
\* the thread of main._announce and a thread started by speak_async
Speakers == {"loop", "announce", "async"}

\* what is spoken: nothing, or a sentence
SpokenTexts == {"", "ready"}

\* no thread holds the lock
NoSpeaker == "none"

\* TTSEngine.__init__, lines 19-21, and _init_engine: the engine is there (e)
\* or could not be initialised, the lock is free, no thread is in speak
InitTts(e) ==
    /\ engine = e
    /\ lockHeld = NoSpeaker
    /\ speakers = [s \in Speakers |-> "idle"]
    /\ spoken = <<>>

\* speak, lines 36-40: an empty text or a missing engine returns at once;
\* otherwise the thread goes on to take the lock
SpeakCall(s) ==
    /\ speakers[s] = "idle"
    /\ Len(spoken) + Cardinality({x \in Speakers : speakers[x] # "idle"}) < MaxSpeaks
    /\ \E text \in SpokenTexts :
          IF text = "" \/ ~engine
             THEN /\ spoken' = Append(spoken, [who |-> s, said |-> "nothing"])
                  /\ UNCHANGED speakers
             ELSE /\ speakers' = [speakers EXCEPT ![s] = "wait"]
                  /\ UNCHANGED spoken
    /\ UNCHANGED <<engine, lockHeld, notTts>>

\* SpeakEnter without the with of line 41
SpeakEnterUnlocked(s) ==
    /\ speakers[s] = "wait"
    /\ lockHeld' = s
    /\ speakers' = [speakers EXCEPT ![s] = "say"]
    /\ UNCHANGED <<engine, spoken, notTts>>

\* speak, lines 41-43: the lock is taken when it is free, and say is called
SpeakEnter(s) ==
    /\ speakers[s] = "wait"
    /\ lockHeld = NoSpeaker
    /\ lockHeld' = s
    /\ speakers' = [speakers EXCEPT ![s] = "say"]
    /\ UNCHANGED <<engine, spoken, notTts>>

\* speak, lines 43-46: runAndWait returns, or say or runAndWait raises and
\* the exception is caught; the with block is left and the lock released
SpeakLeave(s) ==
    /\ speakers[s] = "say"
    /\ \E how \in {"said", "failed"} :
          spoken' = Append(spoken, [who |-> s, said |-> how])
    /\ lockHeld' = NoSpeaker
    /\ speakers' = [speakers EXCEPT ![s] = "idle"]
    /\ UNCHANGED <<engine, notTts>>

\* ------------------------------------------------- one cycle of _loop
\* cyc.pc: the statement the thread is at; cyc.stt: what transcribe did;
\* cyc.intent: what classify_intent returned; cyc.log (history): the messages
\* the cycle has put on the GUI queue and the calls it has made, in order
\* a call of the recognizer, the classifier, the executor, the Speaker or
\* stop()
Call(name) == Ev("call", name, 0)

\* what transcribe does: it raises, returns "", or returns a text of one of
\* the intents
CycleOutcomes ==
    {"error", "empty"} \cup {IntentOrder[i] : i \in DOMAIN IntentOrder} \cup {"unknown"}

\* the thread is about to call get_audio and the cycle has done nothing
NewCycle == [pc |-> "get", stt |-> "none", intent |-> "", log |-> <<>>]

InitCyc == cyc = NewCycle

\* _loop, lines 108-114: get_audio returns an utterance, the status is set
CycDequeue ==
    /\ cyc.pc = "get"
    /\ cyc' = [cyc EXCEPT !.pc = "stt",
                          !.log = @ \o Emit(<<Ev("status", "thinking", 0)>>)]
    /\ UNCHANGED notCyc

\* CycTranscribe without the test of line 123
CycTranscribeAnswersEmpty ==
    /\ cyc.pc = "stt"
    /\ \E out \in CycleOutcomes :
          cyc' = [cyc EXCEPT !.pc = "heard", !.stt = out,
                             !.log = @ \o <<Call("transcribe")>>]
    /\ UNCHANGED notCyc

\* _loop, lines 117-126: transcribe is called; when it raises or returns ""
\* the status is reset and the cycle ends
CycTranscribe ==
    /\ cyc.pc = "stt"
    /\ \E out \in CycleOutcomes :
          cyc' = IF out \in {"error", "empty"}
                    THEN [cyc EXCEPT !.pc = "top", !.stt = out,
                                     !.log = @ \o <<Call("transcribe")>>
                                               \o Emit(<<Ev("status", "listening", 0)>>)]
                    ELSE [cyc EXCEPT !.pc = "heard", !.stt = out,
                                     !.log = @ \o <<Call("transcribe")>>]
    /\ UNCHANGED notCyc

\* _loop, lines 128-134: the transcription and its log line are put, the
\* text is classified
CycHeard ==
    /\ cyc.pc = "heard"
    /\ cyc' = [cyc EXCEPT !.pc = "execute", !.intent = cyc.stt,
                          !.log = @ \o Emit(<<Ev("trans", cyc.stt, 0), Ev("log", "you", 0)>>)
                                    \o <<Call("classify_intent")>>]
    /\ UNCHANGED notCyc

\* _loop, lines 139 and 145: execute is called; executor.py, lines 67-68 and
\* _on_response, lines 158-160: the callback, wired when there is a GUI
\* (line 52), puts the response
CycExecute ==
    /\ cyc.pc = "execute"
    /\ cyc' = [cyc EXCEPT !.pc = "speak",
                          !.log = @ \o <<Call("execute")>>
                                    \o Emit(<<Ev("resp", cyc.intent, 0)>>)]
    /\ UNCHANGED notCyc

\* _speak, lines 151-156: the status, the log line, then TTSEngine.speak,
\* which returns when the text was said
CycSpeak ==
    /\ cyc.pc = "speak"
    /\ cyc' = [cyc EXCEPT !.pc = "spoken",
                          !.log = @ \o Emit(<<Ev("status", "speaking", 0),
                                               Ev("log", "assistant", 0)>>)
                                    \o <<Call("speak")>>]
    /\ UNCHANGED notCyc

\* _loop, lines 138-142: after the stop intent stop() is called and the loop
\* is left; lines 148-149: after any other the status is reset
CycAfter ==
    /\ cyc.pc = "spoken"
    /\ cyc' = IF cyc.intent = "stop"
                 THEN [cyc EXCEPT !.pc = "done", !.log = @ \o <<Call("stop")>>]
                 ELSE [cyc EXCEPT !.pc = "top",
                                  !.log = @ \o Emit(<<Ev("status", "listening", 0)>>)]
    /\ UNCHANGED notCyc

\* _loop, lines 103-108: the next cycle
CycAgain ==
    /\ cyc.pc = "top"
    /\ cyc' = NewCycle
    /\ UNCHANGED notCyc

\* ------------------------------------------------- the specification
\* loop and capture threads are started by start_listening only, one per
\* call at most
ThreadIds == 1..MaxCalls

\* the state after VoiceAssistant.__init__; the segmenter is followed frame by
\* frame in SegSpec only
Init ==
    /\ InitOrch
    /\ listenPc = "off"
    /\ recording = FALSE
    /\ InitSeg(DefaultConfig)
    /\ InitUi
    /\ InitExe
    /\ InitQue
    /\ InitTts(TRUE)
    /\ InitCyc
    /\ InitCfg
    /\ InitCls

\* the steps of the loop threads and of the capture threads
Threads ==
    \/ \E t \in ThreadIds : LoopTop(t)
    \/ \E t \in ThreadIds : LoopGet(t)
    \/ \E t \in ThreadIds : LoopStt(t)
    \/ \E t \in ThreadIds : LoopSpkBegin(t)
    \/ \E t \in ThreadIds : LoopSpkEnd(t)
    \/ \E t \in ThreadIds : LoopStJoin(t)
    \/ \E k \in ThreadIds : CapCheck(k)
    \/ \E k \in ThreadIds : CapFrame(k)

\* one thread calls the control operations (the Tk main thread, or the main
\* thread of a headless run or of an API user)
Next ==
    \/ \E op \in {"start_listening", "toggle_listening"} : CallStart("main", op)
    \/ SlSet("main")
    \/ SlEvents("main")
    \/ CallStopListening("main")
    \/ Pl("main")
    \/ CallStop("main")
    \/ StJoin("main")
    \/ Threads

Spec == Init /\ [][Next]_vars


\* the hotkey thread calls toggle_listening (main.py:53) while the main
\* thread calls the control operations, and the microphone delivers nothing
NextConc ==
    \/ \E op \in {"start_listening", "toggle_listening"} : CallStart("main", op)
    \/ SlSet("main")
    \/ SlEvents("main")
    \/ CallStopListening("main")
    \/ Pl("main")
    \/ CallStop("main")
    \/ StJoin("main")
    \/ CallStart("hotkey", "toggle_listening")
    \/ SlSet("hotkey")
    \/ SlEvents("hotkey")
    \/ Pl("hotkey")
    \/ \E t \in ThreadIds : LoopTop(t)
    \/ \E t \in ThreadIds : LoopGet(t)
    \/ \E k \in ThreadIds : CapCheck(k)

ConcSpec == Init /\ [][NextConc]_vars

\* a step of loop thread t
LoopStep(t) ==
    \/ LoopTop(t)
    \/ LoopGet(t)
    \/ LoopStt(t)
    \/ LoopSpkBegin(t)
    \/ LoopSpkEnd(t)
    \/ LoopStJoin(t)

\* every started thread is scheduled again and again, and the calls it makes
\* (transcribe, runAndWait, join) return
LiveSpec ==
    /\ Spec
    /\ \A t \in ThreadIds : WF_vars(LoopStep(t))
    /\ WF_vars(\E k \in ThreadIds : CapCheck(k))

\* the microphone can fail while the assistant runs
NextFail ==
    \/ Next
    \/ \E k \in ThreadIds : CapReadFails(k)

FailSpec ==
    /\ Init /\ [][NextFail]_vars
    /\ \A t \in ThreadIds : WF_vars(LoopStep(t))
    /\ WF_vars(\E k \in ThreadIds : CapCheck(k))

\* Spec with the histories resumedAt, echo, lastStatus and lastMic kept
HistInit ==
    /\ InitOrch
    /\ listenPc = "off"
    /\ recording = TRUE
    /\ InitSeg(DefaultConfig)
    /\ InitUi
    /\ InitExe
    /\ InitQue
    /\ InitTts(TRUE)
    /\ InitCyc
    /\ InitCfg
    /\ InitCls

HistSpec == HistInit /\ [][Next]_vars

\* the headless run of main.py: no GUI, the main thread calls listen() and
\* nothing else
HeadlessInit ==
    /\ InitOrch
    /\ ~gui
    /\ listenPc = "init"
    /\ recording = FALSE
    /\ InitSeg(DefaultConfig)
    /\ InitUi
    /\ InitExe
    /\ InitQue
    /\ InitTts(TRUE)
    /\ InitCyc
    /\ InitCfg
    /\ InitCls

HeadlessNext ==
    \/ ListenGreet
    \/ ListenStart
    \/ SlSet("main")
    \/ SlEvents("main")
    \/ ListenWait
    \/ ListenInterrupt
    \/ StJoin("main")
    \/ ListenReturn
    \/ Threads

\* a step of the main thread in listen() and in the calls it makes, the
\* KeyboardInterrupt aside
ListenStep ==
    \/ ListenGreet
    \/ ListenStart
    \/ SlSet("main")
    \/ SlEvents("main")
    \/ ListenWait
    \/ StJoin("main")
    \/ ListenReturn

\* the threads are scheduled, the calls they make return, and the main
\* thread wakes from its sleep
HeadlessSpec ==
    /\ HeadlessInit /\ [][HeadlessNext]_vars
    /\ \A t \in ThreadIds : WF_vars(LoopStep(t))
    /\ WF_vars(\E k \in ThreadIds : CapCheck(k))
    /\ WF_vars(ListenStep)

\* the segmenter alone, for every configuration and every sequence of frames
SegInit ==
    /\ InitOrch /\ ~gui /\ listenPc = "off" /\ recording = FALSE
    /\ \E c \in Configs : InitSeg(c)
    /\ InitUi
    /\ InitExe
    /\ InitQue
    /\ InitTts(TRUE)
    /\ InitCyc
    /\ InitCfg
    /\ InitCls

SegNext == \E is_speech \in BOOLEAN : SegFrame(is_speech)

SegSpec == SegInit /\ [][SegNext]_vars

\* main.py, lines 37-40: the assistant is built with the Tk GUI
GuiInit == Init /\ gui

\* the GUI queue alone: two threads put, the Tk main thread polls
UiNext ==
    \/ \E p \in Producers : UiPut(p)
    \/ PollBegin
    \/ PollGet
    \/ PollEmpty

\* the Tk main loop runs the poll that after(50) has scheduled, and a poll
\* that has begun goes on
UiSpec ==
    /\ GuiInit /\ [][UiNext]_vars
    /\ WF_vars(PollBegin \/ PollGet \/ PollEmpty)

\* calls of CommandExecutor.execute alone
ExeNext ==
    \/ ExeCall
    \/ ExeHandler
    \/ ExeNotify

ExeSpec == GuiInit /\ [][ExeNext]_vars

\* the texts classify_intent is tried on: up to MaxWords words of Vocabulary
\* joined by spaces, the last one joined by a space or by a point, all in
\* lower case or all in capitals
Vocabulary == {"create", "file", "named", "time", "rename"}

RECURSIVE TextsOf(_)
TextsOf(n) ==
    IF n = 0 THEN {<<>>}
    ELSE LET shorter == TextsOf(n - 1)
         IN  shorter \cup
             {Append(t, Word(w, FALSE, IF t = <<>> THEN "" ELSE " ")) :
                 t \in {u \in shorter : Len(u) = n - 1}, w \in Vocabulary}

\* the same text with a point before its last word
pointed(t) == [t EXCEPT ![Len(t)].sep = "."]

\* the same text in capitals
upper(t) == [i \in DOMAIN t |-> [t[i] EXCEPT !.up = TRUE]]

LowerTexts ==
    TextsOf(MaxWords) \cup {pointed(t) : t \in {u \in TextsOf(MaxWords) : Len(u) >= 2}}

Texts == LowerTexts \cup {upper(t) : t \in LowerTexts}

ClsInit ==
    /\ InitOrch /\ ~gui /\ listenPc = "off" /\ recording = FALSE
    /\ InitSeg(DefaultConfig)
    /\ InitUi
    /\ InitExe
    /\ InitQue
    /\ InitTts(TRUE)
    /\ InitCyc
    /\ InitCfg
    /\ clsText \in Texts
    /\ result = NoResult
    /\ ncls = 0

ClsNext == ClassifyCall

\* Config.get alone, on every config, key path and default tried
CfgInit ==
    /\ InitOrch /\ ~gui /\ listenPc = "off" /\ recording = FALSE
    /\ InitSeg(DefaultConfig)
    /\ InitUi
    /\ InitExe
    /\ InitQue
    /\ InitTts(TRUE)
    /\ InitCyc
    /\ InitCls
    /\ cfgData \in Configs2
    /\ cfgKeys \in KeyPaths
    /\ cfgDefault \in Defaults
    /\ cfgGot = NotCalled

CfgNext == ConfigGet

CfgSpec == CfgInit /\ [][CfgNext]_vars

\* the segmenter putting, two threads taking and one thread flushing
QueueNext ==
    \/ QueuePut
    \/ \E g \in Getters : GetAudio(g)
    \/ ClearCall
    \/ ClearTest
    \/ ClearGet

QueueInit == Init /\ ~gui

QueueSpec == QueueInit /\ [][QueueNext]_vars

\* the threads that speak, alone
TtsNext ==
    \E s \in Speakers :
       \/ SpeakCall(s)
       \/ SpeakEnter(s)
       \/ SpeakLeave(s)

TtsInit ==
    /\ InitOrch /\ ~gui /\ listenPc = "off" /\ recording = FALSE
    /\ InitSeg(DefaultConfig)
    /\ InitUi
    /\ InitExe
    /\ InitQue
    /\ \E e \in BOOLEAN : InitTts(e)
    /\ InitCyc
    /\ InitCfg
    /\ InitCls

TtsSpec == TtsInit /\ [][TtsNext]_vars

\* one loop thread alone, listening, with an utterance always there
CycNext ==
    \/ CycDequeue
    \/ CycTranscribe
    \/ CycHeard
    \/ CycExecute
    \/ CycSpeak
    \/ CycAfter
    \/ CycAgain

CycSpec == Init /\ [][CycNext]_vars

\* the words a file name is made of
NameWords == {"hello", "txt", "time", "notes"}

\* the file names of n words or fewer: words in lower case or in capitals,
\* joined by points
RECURSIVE NamesOf(_)
NamesOf(n) ==
    IF n = 0 THEN {}
    ELSE LET shorter == NamesOf(n - 1)
         IN  shorter
             \cup (IF n = 1 THEN {<<Word(w, up, "")>> : w \in NameWords, up \in BOOLEAN}
                   ELSE {Append(t, Word(w, up, ".")) :
                           t \in {u \in shorter : Len(u) = n - 1},
                           w \in NameWords, up \in BOOLEAN})

\* "Create a file named " (test_create_file_intent, tests/test_intent.py:29)
CreateNamed ==
    <<Word("create", TRUE, ""), Word("a", FALSE, " "), Word("file", FALSE, " "),
      Word("named", FALSE, " ")>>

\* "Create a file named " + X
NamedText(X) == CreateNamed \o [X EXCEPT ![1].sep = " "]

\* the file name the text was made with
GivenName == AsText(SubSeq(clsText, Len(CreateNamed) + 1, Len(clsText)))

FileInit ==
    /\ InitOrch /\ ~gui /\ listenPc = "off" /\ recording = FALSE
    /\ InitSeg(DefaultConfig)
    /\ InitUi
    /\ InitExe
    /\ InitQue
    /\ InitTts(TRUE)
    /\ InitCyc
    /\ InitCfg
    /\ clsText \in {NamedText(X) : X \in NamesOf(MaxNameWords)}
    /\ result = NoResult
    /\ ncls = 0

\* classify_intent on "Create a file named " + X, for every file name X
FileSpec == FileInit /\ [][ClsNext]_vars

\* classify_intent alone, on every text of Texts
ClsSpec == ClsInit /\ [][ClsNext]_vars

\* ------------------------------------------------- properties
\* a cycle is in flight from the dequeue until the Speaker has returned
InFlight(t) == loops[t].pc \in {"stt", "spk_begin", "spk_end"}

\* the last cycle of loop thread t is over: transcribe has returned and the
\* thread holds no utterance
CycleDone(t) == loops[t].utt = 0 /\ loops[t].res # "none"

\* the Listening(true) messages a caller's last call has put
MicOn(c) == LET IsOn(e) == e.kind = "mic" /\ e.arg = "on"
            IN  Len(SelectSeq(callers[c].emitted, IsOn))

\* C1: at most one recognition/response cycle is in flight at any time.
C1_OneCycleInFlight == Cardinality({t \in DOMAIN loops : InFlight(t)}) <= 1

\* C2: utterance ids follow the enqueue order; no Transcript or Response
\* message and no Speaker call for an utterance comes after a Transcript or
\* Response message of a later utterance.
C2_CyclesNotInterleaved ==
    [][\A t \in DOMAIN loops :
          (loops'[t].answered > loops[t].answered \/ loops'[t].said > loops[t].said)
              => maxPut <= loops[t].utt]_vars

\* C3: once a stop() has returned no message is put on the GUI queue.
C3_NoEventAfterShutdown == ~late

\* C4: once the exit flag is set, every loop thread ends.
C4_LoopsTerminate == shouldExit ~> (LiveLoops = {})

\* C4 witness: shutdown was requested, loop threads had been started, and
\* all of them have ended.
C4_Witness == shouldExit /\ Len(loops) >= 2 /\ LiveLoops = {}

\* C5: after a stop() has returned the assistant is not listening and the
\* capture is not running.
C5_ShutdownTerminal == stopped => (~listening /\ ~running)

\* C6: when the last two control calls are both stop_listening, the
\* assistant is paused and the second call has put no message.
C6_StopListeningTwice ==
    (Len(recent) = 2 /\ recent[1].op = "stop_listening" /\ recent[2].op = "stop_listening")
        => (~listening /\ callers["main"].emitted = <<>>)

\* C7: the step in which the second of two consecutive toggle_listening
\* calls returns (no shutdown having been requested, so that no thread ends
\* on its own) leaves the flag and the numbers of live loop and capture
\* threads as they were before the first.
C7_ToggleTwice ==
    [][(/\ callers["main"].pc \in {"sl_events", "pl"}
        /\ callers'["main"].pc = "idle"
        /\ Len(recent) = 2
        /\ recent[1].op = "toggle_listening"
        /\ recent[2].op = "toggle_listening"
        /\ ~shouldExit')
           => Snap' = recent[1].pre]_vars

\* C8: when exactly two control calls were made, one by each thread, both
\* start_listening or toggle_listening, and both have returned, one loop
\* thread was started and Listening(true) was put once, as after either
\* serial order of the two calls.
C8_ConcurrentStartOnce ==
    (/\ ncalls = 2
     /\ Len(recent) = 2
     /\ \A i \in 1..2 : recent[i].op \in {"start_listening", "toggle_listening"}
     /\ {recent[1].by, recent[2].by} = Callers
     /\ \A c \in Callers : callers[c].pc = "idle")
        => /\ Len(loops) = 1
           /\ MicOn("main") + MicOn("hotkey") = (IF gui THEN 1 ELSE 0)

\* C9: the step in which transcribe raises takes the loop thread back to the
\* while test, leaves the listening and exit flags and the utterance queue as
\* they were, and puts no response.
C9_RecognizerErrorNotFatal ==
    [][\A t \in DOMAIN loops :
          (loops[t].pc = "stt" /\ loops'[t].pc # "stt" /\ loops'[t].res = "error")
              => /\ loops'[t].pc = "top"
                 /\ listening' = listening
                 /\ shouldExit' = shouldExit
                 /\ audioQueue' = audioQueue
                 /\ loops'[t].said = 0
                 /\ loops'[t].answered = 0
                 /\ maxPut' = maxPut]_vars

\* C9 witness: a loop thread is back at the while test after a recognizer
\* error, the assistant is listening and the next utterance is queued.
C9_Witness ==
    \E t \in DOMAIN loops :
        /\ loops[t].pc = "top" /\ loops[t].res = "error"
        /\ listening /\ ~shouldExit /\ audioQueue # <<>>

\* C10: every finished cycle has made exactly one Speaker call.
C10_EveryCycleOneResponse == \A t \in DOMAIN loops : CycleDone(t) => loops[t].said = 1

\* C10, amended: a finished cycle with a non-empty transcript has made
\* exactly one Speaker call and put exactly one Response message (GUI), a
\* finished cycle with an empty transcript or a recognizer error none.
C10_OneResponseUnlessEmpty ==
    \A t \in DOMAIN loops :
        CycleDone(t) =>
            /\ loops[t].said = (IF TextOf(loops[t].res) = "" THEN 0 ELSE 1)
            /\ loops[t].answered = (IF TextOf(loops[t].res) = "" \/ ~gui THEN 0 ELSE 1)

\* C10 witness: one cycle has ended without a response after a recognizer
\* error, another after a spoken response to an ordinary command.
C10_Witness ==
    \E t, s \in DOMAIN loops :
        /\ CycleDone(t) /\ loops[t].res = "error" /\ loops[t].said = 0
        /\ CycleDone(s) /\ loops[s].res = "cmd" /\ loops[s].said = 1 /\ loops[s].answered = 1

\* ------------------------------------------------- properties of the segmenter
\* the frames from lo to hi, as the buffer holds them
Range(lo, hi) == [i \in 1..(hi - lo + 1) |-> lo + i - 1]

\* how many frames in a row, from frame i on, are speech (v) or silent (~v)
RECURSIVE CountRun(_, _)
CountRun(i, v) ==
    IF i > Len(frames) \/ frames[i] # v THEN 0 ELSE 1 + CountRun(i + 1, v)

\* the silent frames that end an utterance: the one that finds
\* silent_chunks >= silence_chunks_needed, one at least
Boundary == Max(1, silence_chunks_needed)

\* the frames read so far, cut into silence, speech, silence, speech, silence
\* (each as long as it goes), and what is left
Lead == CountRun(1, FALSE)
Run1 == CountRun(Lead + 1, TRUE)
Gap1 == CountRun(Lead + Run1 + 1, FALSE)
Run2 == CountRun(Lead + Run1 + Gap1 + 1, TRUE)
Gap2 == CountRun(Lead + Run1 + Gap1 + Run2 + 1, FALSE)

\* the locals of _capture_loop are as before the first frame
SegReset == buffer = <<>> /\ silent_chunks = 0 /\ ~speaking

\* C11: when the frames read are silence, a speech run of Run1 frames and at
\* least silence_chunks_needed silent frames (one at least), exactly one
\* utterance was put: the speech run and the silent frames up to the one that
\* completes the boundary, and the locals are reset; when a second speech
\* run and its silence follow, exactly two were put, the second made of the
\* second run and its boundary only.
C11_OneUtterancePerRun ==
    /\ (/\ Run1 >= 1 /\ Gap1 >= Boundary
        /\ Lead + Run1 + Gap1 = Len(frames))
          => /\ segQueue = <<Range(Lead + 1, Lead + Run1 + Boundary)>>
             /\ SegReset
    /\ (/\ Run1 >= 1 /\ Gap1 >= Boundary /\ Run2 >= 1 /\ Gap2 >= Boundary
        /\ Lead + Run1 + Gap1 + Run2 + Gap2 = Len(frames))
          => /\ segQueue = <<Range(Lead + 1, Lead + Run1 + Boundary),
                             Range(Lead + Run1 + Gap1 + 1,
                                   Lead + Run1 + Gap1 + Run2 + Boundary)>>
             /\ SegReset

\* C11 witness: a boundary of two frames or more and two speech runs of which
\* the first is followed by more silence than needed; two utterances were
\* put.
C11_Witness ==
    /\ silence_chunks_needed >= 2
    /\ Run1 >= 1 /\ Gap1 > Boundary /\ Run2 >= 1 /\ Gap2 >= Boundary
    /\ Lead + Run1 + Gap1 + Run2 + Gap2 = Len(frames)
    /\ Len(segQueue) = 2

\* C12: silence while not speaking is never buffered and never makes an
\* utterance: while no speech frame was read the buffer is empty and nothing
\* was put; the buffer is empty whenever the segmenter is not speaking; and
\* the buffer and every utterance put begin with a speech frame.
C12_SilenceNotBuffered ==
    /\ (Lead = Len(frames)) => (buffer = <<>> /\ segQueue = <<>> /\ ~speaking)
    /\ ~speaking => buffer = <<>>
    /\ buffer # <<>> => frames[buffer[1]]
    /\ \A i \in DOMAIN segQueue : frames[segQueue[i][1]]

\* C12 witness: three silent frames or more were read and no speech frame.
C12_Witness == Len(frames) >= 3 /\ Lead = Len(frames) /\ buffer = <<>>

\* silence_duration * sample_rate / chunk_size rounded up
CeilNeeded ==
    (config.silence_duration2 * config.sample_rate + 2 * config.chunk_size - 1)
        \div (2 * config.chunk_size)

\* how many frames at the end of utterance u, up to its frame k, are silent
RECURSIVE TrailingSilent(_, _)
TrailingSilent(u, k) ==
    IF k = 0 \/ frames[u[k]] THEN 0 ELSE 1 + TrailingSilent(u, k - 1)

\* C13: an utterance is put exactly when the silent run reaches the ceiling
\* of silence_duration * sample_rate / chunk_size: every utterance put ends
\* with that many silent frames, and a silent run of an utterance still
\* buffered is shorter.
C13_CeilingOfSilence ==
    /\ \A i \in DOMAIN segQueue :
           TrailingSilent(segQueue[i], Len(segQueue[i])) = CeilNeeded
    /\ speaking => silent_chunks < CeilNeeded

\* ------------------------------------------------- pause, resume and echo
\* stop_listening has returned, no start_listening has been entered since,
\* and no shutdown was asked for
Paused == ~listening /\ ~shouldExit /\ \A c \in Callers : callers[c].pc = "idle"

\* C14: while the assistant is paused no utterance is taken off the
\* utterance queue.
C14_NoDequeueWhilePaused ==
    [][Paused => Len(audioQueue') >= Len(audioQueue)]_vars

\* C15: an utterance that was put on the queue before the last
\* start_listening resumed the assistant is not handed to the recognizer.
C15_NoStaleAfterResume ==
    [][\A t \in DOMAIN loops :
          (~shouldExit /\ loops[t].pc = "get" /\ loops'[t].pc = "stt")
              => loops'[t].utt > resumedAt]_vars

\* C16: an utterance with a frame that was read while a Speaker call was in
\* progress is not recognized and answered.
C16_NoSelfCapture ==
    [][\A t \in DOMAIN loops :
          (loops[t].pc = "stt" /\ loops'[t].pc = "spk_begin")
              => loops[t].utt \notin echo]_vars

\* ------------------------------------------------- the stop intent
\* loop thread t is in a cycle whose transcript has the stop intent
StopCycle(t) == classify_intent(TextOf(loops[t].res)) = "stop"

\* C17: a cycle of the stop intent leaves the Speaker call with its response
\* spoken and with the exit flag set, listening false and the capture flag
\* cleared; the loop thread calls stop() from there only; from stop() the
\* thread ends without another dequeue; and in a headless run listen()
\* returns afterwards.
C17_StopIntentShutsDown ==
    /\ [][\A t \in DOMAIN loops :
             (StopCycle(t) /\ loops[t].pc = "spk_end" /\ loops'[t].pc # "spk_end")
                 => /\ loops[t].said = 1
                    /\ shouldExit' /\ ~listening' /\ ~running'
                    /\ loops'[t].pc = "st_join"]_vars
    /\ [][(recent' # recent /\ recent'[Len(recent')].by = "loop")
             => \E t \in DOMAIN loops :
                   StopCycle(t) /\ loops[t].pc = "spk_end" /\ loops[t].said = 1]_vars
    /\ [][\A t \in DOMAIN loops :
             loops[t].pc = "st_join" => loops'[t].pc \in {"st_join", "done"}]_vars
    /\ (\E t \in DOMAIN loops : StopCycle(t) /\ loops[t].pc = "spk_end")
           ~> (listenPc = "returned")

\* C17 witness: the loop thread has called stop() after a stop intent, every
\* loop thread has ended and listen() has returned.
C17_Witness ==
    /\ listenPc = "returned"
    /\ recent[Len(recent)] = [op |-> "stop", by |-> "loop", pre |-> NoSnap]
    /\ loops # <<>> /\ LiveLoops = {}
    /\ shouldExit /\ ~listening /\ ~running

\* ------------------------------------------------- a failing microphone
\* a capture thread has ended by an exception of stream.read
CaptureFailed == \E k \in DOMAIN caps : caps[k] = "failed"

\* C18: after a microphone read has failed and ended the capture thread, a
\* fatal status is put on the GUI queue sooner or later.
C18_FailureIsShown == CaptureFailed ~> fatalShown

\* ------------------------------------------------- the GUI message queue
\* the messages of producer p in sequence q
Of(p, q) == LET By(m) == m.by = p IN SelectSeq(q, By)

\* message m was dispatched
Shown(m) == \E i \in DOMAIN shown : shown[i] = m

\* C19: the messages dispatched followed by the messages pending hold every
\* message a producer has put, once and in the order of its puts; a put is
\* never kept waiting, however many messages are pending; a poll that finds
\* the queue empty returns; and every message put is dispatched by a poll
\* sooner or later.
C19_ChannelDelivers ==
    /\ [](\A p \in Producers :
             /\ Of(p, shown \o msgQueue) = [i \in 1..sent[p] |-> Msg(p, i)]
             /\ sent[p] < MaxPuts => ENABLED UiPut(p))
    /\ [](pollPc = "draining" => ENABLED (PollGet \/ PollEmpty))
    /\ \A p \in Producers : \A i \in 1..MaxPuts :
           (sent[p] >= i) ~> Shown(Msg(p, i))

\* C19 witness: both threads have put all their messages, the polls have
\* dispatched them all, those of the two threads interleaved, and the last
\* poll has returned.
C19_Witness ==
    /\ \A p \in Producers : sent[p] = MaxPuts
    /\ msgQueue = <<>> /\ pollPc = "idle"
    /\ shown[1].by = "capture" /\ shown[2].by = "loop" /\ shown[3].by = "capture"

\* ------------------------------------------------- CommandExecutor.execute
\* C20: execute never lets an exception out and returns a response that is
\* not empty, whatever the intent and whatever fails during the call.
C20_ExecuteNeverRaises ==
    /\ exe.pc # "raised"
    /\ exe.pc = "returned" => exe.response # ""

\* ------------------------------------------------- classify_intent
\* the place of an intent in the table
Place(intent) == CHOOSE i \in DOMAIN IntentOrder : IntentOrder[i] = intent

\* the intents that have an expression matching the lowercased text
Matching == {i \in DOMAIN IntentOrder : Matches(IntentOrder[i], lower(clsText))}

\* C21: when some intent has an expression that matches the lowercased text,
\* classify_intent returns the one of them that comes first in the table,
\* and a second call on the same text returns what the first returned.
C21_FirstIntentWins ==
    /\ []((ncls >= 1 /\ Matching # {})
            => /\ result.intent \in {IntentOrder[i] : i \in Matching}
               /\ \A i \in Matching : Place(result.intent) <= i)
    /\ [][ncls >= 1 => result' = result]_vars

\* C21 witness: the text has create file before time, written in capitals;
\* both intents match, and both calls returned time.
C21_Witness ==
    /\ ncls = 2
    /\ Len(clsText) >= 3 /\ clsText[1].w = "create" /\ clsText[1].up
    /\ clsText[3].w = "time"
    /\ {Place("time"), Place("create_file")} \subseteq Matching
    /\ result.intent = "time"

\* C22: classify_intent("Create a file named " + X) returns create_file with
\* the file name X as it was written.
C22_FileNameAsWritten ==
    ncls >= 1 => result = [intent |-> "create_file",
                           metadata |-> {<<"filename", GivenName>>}]

\* the text has named, called or with name, followed by white space and a
\* token
NamedPhrase ==
    \E k \in 1..(Len(clsText) - 1) :
       /\ clsText[k + 1].sep = " "
       /\ \/ clsText[k].w \in {"named", "called"}
          \/ k > 1 /\ clsText[k].w = "name" /\ clsText[k].sep = " "
                   /\ clsText[k - 1].w = "with"

\* a text that matches no expression gives ("unknown", {}), and the metadata
\* of every intent but create_file is empty
UnknownAndEmpty ==
    /\ Matching = {} => result = [intent |-> "unknown", metadata |-> {}]
    /\ result.intent # "create_file" => result.metadata = {}

\* C23 as stated: a text with no match gives ("unknown", {}), metadata is
\* empty except for create_file, and create_file carries a filename, which
\* is new_file.txt when the text has no named, called or with name followed
\* by a token.
C23_DefaultWithoutPhrase ==
    ncls >= 1 =>
       /\ UnknownAndEmpty
       /\ result.intent = "create_file" =>
             /\ \E v \in {FileName(clsText), DefaultFileName} :
                   result.metadata = {<<"filename", v>>}
             /\ ~NamedPhrase => result.metadata = {<<"filename", DefaultFileName>>}

\* C23 amended: the same, the filename being new_file.txt when no word of
\* the text that ends with name, named, calle or called (in any letter case)
\* is followed by white space and a token, and else the token that follows
\* the first such word, as written.
C23_DefaultWithoutMatch ==
    ncls >= 1 =>
       /\ UnknownAndEmpty
       /\ result.intent = "create_file" =>
             \E v \in {AsText(TokenAt(clsText, k + 1)) : k \in NameAt(clsText)}
                       \cup {DefaultFileName} :
                /\ result.metadata = {<<"filename", v>>}
                /\ v = DefaultFileName <=> NameAt(clsText) = {}
                /\ \A k \in NameAt(clsText) :
                      (\A m \in NameAt(clsText) : k <= m)
                          => v = AsText(TokenAt(clsText, k + 1))

\* C23 witness: create file named, with no token after it, has given
\* create_file with the default file name.
C23_Witness ==
    /\ ncls >= 1
    /\ Len(clsText) = 3 /\ clsText[3].w = "named" /\ NameAt(clsText) = {}
    /\ result = [intent |-> "create_file", metadata |-> {<<"filename", DefaultFileName>>}]

\* ------------------------------------------------- Config.get
\* every key of the path ks is present from val on
RECURSIVE Present(_, _)
Present(val, ks) ==
    \/ ks = <<>>
    \/ /\ val.kind = "dict"
       /\ Head(ks) \in DOMAIN val.items
       /\ Present(val.items[Head(ks)], Tail(ks))

\* the value stored at the path ks from val on
RECURSIVE Stored(_, _)
Stored(val, ks) == IF ks = <<>> THEN val ELSE Stored(val.items[Head(ks)], Tail(ks))

\* C24: Config.get returns the value stored at the key path when every key
\* of the path is present, and the default itself when not.
C24_GetOrDefault ==
    cfgGot # NotCalled =>
       cfgGot = IF Present(cfgData, cfgKeys) THEN Stored(cfgData, cfgKeys)
                ELSE cfgDefault

\* ------------------------------------------------- utterances and locals
\* utterance u is made of frames that follow one another
Contiguous(u) == \A k \in 1..(Len(u) - 1) : u[k + 1] = u[k] + 1

\* C27: every utterance put starts with a speech frame, is made of frames
\* that follow one another, ends (when silence_chunks_needed is at least 1)
\* with exactly silence_chunks_needed silent frames and has no earlier run
\* of that many; and the silent count is the number of silent frames at the
\* end of the buffer, so 0 after a speech frame.
C27_UtteranceShape ==
    /\ \A i \in DOMAIN segQueue :
          LET u == segQueue[i]
          IN  /\ frames[u[1]]
              /\ Contiguous(u)
              /\ silence_chunks_needed >= 1 =>
                    /\ TrailingSilent(u, Len(u)) = silence_chunks_needed
                    /\ \A k \in 1..(Len(u) - 1) :
                          TrailingSilent(u, k) < silence_chunks_needed
    /\ speaking => silent_chunks = TrailingSilent(buffer, Len(buffer))
    /\ (frames # <<>> /\ frames[Len(frames)]) => silent_chunks = 0

\* C27 witness: a boundary of two frames or more, and an utterance put that
\* has a silent frame followed by a speech frame inside.
C27_Witness ==
    /\ silence_chunks_needed >= 2
    /\ \E i \in DOMAIN segQueue :
          \E k \in 1..(Len(segQueue[i]) - 1) :
             ~frames[segQueue[i][k]] /\ frames[segQueue[i][k + 1]]

\* C30: after each frame: not speaking means an empty buffer and a silent
\* count of 0; speaking means a buffer that is not empty and a silent count
\* below silence_chunks_needed (or 0); the silent count is never more than
\* the number of frames buffered.
C30_SegmenterLocals ==
    /\ ~speaking => (buffer = <<>> /\ silent_chunks = 0)
    /\ speaking => /\ buffer # <<>>
                   /\ silent_chunks < silence_chunks_needed \/ silent_chunks = 0
    /\ silent_chunks <= Len(buffer)

\* C30 witness: speaking, with a silent run one frame short of the boundary.
C30_Witness ==
    /\ speaking /\ silent_chunks >= 1
    /\ silent_chunks = silence_chunks_needed - 1

\* ------------------------------------------------- one cycle of _loop
\* the cycle is over
CycleOver == cyc.pc \in {"top", "done"}

\* the messages of the cycle and its Speaker call, without the other calls
Visible == LET Seen(e) == e.kind # "call" \/ e.arg = "speak"
           IN  SelectSeq(cyc.log, Seen)

\* C25: a cycle with a transcript that is not empty puts thinking, the
\* transcript and its log line, the response and its log line, speaking,
\* then calls the Speaker, then puts listening.
C25_CycleOrder ==
    (gui /\ CycleOver /\ cyc.stt \notin {"none", "error", "empty"})
        => Visible = <<Ev("status", "thinking", 0),
                       Ev("trans", cyc.stt, 0), Ev("log", "you", 0),
                       Ev("resp", cyc.intent, 0), Ev("log", "assistant", 0),
                       Ev("status", "speaking", 0),
                       Call("speak"),
                       Ev("status", "listening", 0)>>

\* C26: a cycle whose transcript is empty, an exception of the recognizer
\* included, puts listening after the call of transcribe and nothing else,
\* and calls neither the classifier nor the executor nor the Speaker.
C26_EmptyTranscriptCycle ==
    (cyc.stt \in {"error", "empty"})
        => /\ CycleOver
           /\ cyc.log = Emit(<<Ev("status", "thinking", 0)>>)
                          \o <<Call("transcribe")>>
                          \o Emit(<<Ev("status", "listening", 0)>>)

\* C26 witness: with a GUI, transcribe has raised and the cycle is over with
\* the status back to listening.
C26_Witness ==
    /\ gui /\ cyc.stt = "error" /\ cyc.pc = "top"
    /\ cyc.log[Len(cyc.log)] = Ev("status", "listening", 0)

\* ------------------------------------------------- the speech engine
\* the threads that are between say and the return of runAndWait
Driving == {s \in Speakers : speakers[s] = "say"}

\* C29: at most one thread drives the engine at a time; a thread enters only
\* when none is driving, so a later call waits for the earlier one to end;
\* and the lock is held by the thread that is driving and by no other, so
\* after a call that failed the lock is free for the next.
C29_OneSpeakerAtATime ==
    /\ [](Cardinality(Driving) <= 1)
    /\ [](Driving = IF lockHeld = NoSpeaker THEN {} ELSE {lockHeld})
    /\ [][\A s \in Speakers : (s \in Driving' /\ s \notin Driving) => Driving = {}]_vars

\* C29 witness: a call has failed inside the engine, and after it another
\* thread is driving the engine while a third waits for the lock.
C29_Witness ==
    /\ \E i \in DOMAIN spoken : spoken[i].said = "failed"
    /\ \E s \in Speakers : speakers[s] = "say" /\ spoken[Len(spoken)].who # s
    /\ \E w \in Speakers : speakers[w] = "wait"

\* ------------------------------------------------- the utterance queue
\* the utterances get_audio has returned
Returned == {returned[i].utt : i \in DOMAIN returned}

\* C28: get_audio returns utterances in the order they were put and none
\* twice, with several threads calling it; clear_queue takes off only
\* utterances that were put, and none of them is returned by get_audio;
\* every utterance put is on the queue, was returned or was flushed.
C28_QueueOrder ==
    /\ \A i, j \in DOMAIN returned : i < j => returned[i].utt < returned[j].utt
    /\ \A i, j \in DOMAIN queued : i < j => queued[i] < queued[j]
    /\ flushed \subseteq 1..nput
    /\ flushed \cap Returned = {}
    /\ \A i \in DOMAIN queued : queued[i] \notin flushed \cup Returned
    /\ Returned \cup flushed \cup {queued[i] : i \in DOMAIN queued} = 1..nput

\* C28 witness: both threads were given an utterance, and an utterance put
\* between two that were returned was flushed.
C28_Witness ==
    /\ \A g \in Getters : \E i \in DOMAIN returned : returned[i].who = g
    /\ \E f \in flushed : \E a, b \in Returned : a < f /\ f < b

\* ------------------------------------------------- capture threads
\* the capture threads that are inside the while loop of _capture_loop, in
\* or after a stream.read
Reading == {k \in DOMAIN caps : caps[k] = "reading"}

\* C33: at most one capture thread reads the microphone and puts utterances
\* at any time, also after a stop whose join timed out and a start that
\* followed.
C33_OneCaptureThread == Cardinality(Reading) <= 1

\* ------------------------------------------------- what the UI shows last
\* no control call is in progress
NoCall == \A c \in Callers : callers[c].pc = "idle"

\* C31: whenever the assistant is paused and no cycle is in flight, the
\* status last put on the GUI queue is idle.
C31_IdleWhilePaused ==
    (gui /\ Paused /\ \A t \in DOMAIN loops : ~InFlight(t)) => lastStatus = "idle"

\* C32: whenever the assistant is not listening and no control call is in
\* progress, the Listening(bool) last put on the GUI queue is not
\* Listening(true).
C32_MicOffWhenNotListening ==
    (gui /\ ~listening /\ NoCall) => lastMic # "on"

====
